---- MODULE Spec2Model ----
(***************************************************************************)
(* Model of streamlit_dashboards.py: the Superstore dashboard script.      *)
(* One script run = load_data (cached), the df.empty check, the sidebar    *)
(* filter widgets, the boolean-mask filter, and the three tabs of          *)
(* aggregations.  A widget change by the user reruns the script.           *)
(*                                                                         *)
(* Representation.  Amounts are integers (cents), discounts are per cent,  *)
(* a calendar date is the integer YYYYMMDD, a frame is a sequence of rows  *)
(* and each row of df carries its pandas index.  A float result that can   *)
(* be NaN or +-inf is a record with a "kind".                              *)
(*                                                                         *)
(* Inputs.  The CSV holds calendar dates without a time of day and no      *)
(* missing cells, and no label occurs in two filtered columns (a checkbox  *)
(* is keyed by its label).  The *_sorted copies of the tables, which only  *)
(* order the bars of a chart, and the charts themselves are left out.      *)
(*                                                                         *)
(* Specifications.  Spec: sessions on a source that stays as it is.        *)
(* SpecRefresh: filter changes, data refreshes and a source that changes.  *)
(* SpecRerun: filter changes and reruns, each run remembering the one      *)
(* before it.  SpecSchema: a CSV that lacks one of the columns.            *)
(***************************************************************************)
EXTENDS Integers, Sequences, FiniteSets, TLC

(***************************************************************************)
(* Bounds of the model.                                                    *)
(***************************************************************************)
\* longest CSV drawn from the row pool
MaxRecords == 2
\* widget changes (each one reruns the script) in one session
MaxChanges == 2
\* data refreshes (the cache of load_data cleared) in one session
MaxRefreshes == 1

(***************************************************************************)
(* Program constants.                                                      *)
(***************************************************************************)
\* .head(10) of the customers table
TopCustomers == 10
\* nlargest(5, ...) of the state tables
TopStates == 5

(***************************************************************************)
(* Column values.  Python orders strings by code point; Alphabet lists     *)
(* every label of the model in that order, Rank is a label's position.     *)
(***************************************************************************)
Alphabet ==
  << "Ann", "Bob", "Cat", "Chairs", "Consumer", "Corporate", "Dan", "East",
     "Eve", "Fay", "First Class", "Furniture", "Gus", "Hal", "Ida", "Idaho",
     "Iowa", "Jay", "Kim", "Maine", "O1", "O2", "O3", "O4", "O5", "O6", "Ohio",
     "Phones", "Standard Class", "Technology", "Texas", "Utah", "West" >>

Rank(label) == CHOOSE i \in DOMAIN Alphabet : Alphabet[i] = label

\* the six filtered columns, in the order the sidebar renders them
FilterColumns ==
  << "Category", "SubCategory", "Region", "State", "ShipMode", "Segment" >>

(***************************************************************************)
(* The CSV.  A raw row carries its dates as <<month, day, year>>, the      *)
(* M/D/YYYY text of the file.                                              *)
(***************************************************************************)
RawRow(oid, od, sd, cat, sub, reg, st, sm, seg, cust, sales, profit, qty, disc) ==
  [ OrderID |-> oid, OrderDate |-> od, ShipDate |-> sd, Category |-> cat,
    SubCategory |-> sub, Region |-> reg, State |-> st, ShipMode |-> sm,
    Segment |-> seg, CustomerName |-> cust, Sales |-> sales, Profit |-> profit,
    Quantity |-> qty, Discount |-> disc ]

\* rows the small CSVs are drawn from: a shared order id, a month gap
\* (January, March), equal sales in different groups, zero sales with a
\* positive, a negative and (summed) a zero profit
RowPool ==
  { RawRow("O1", <<1, 15, 2023>>, <<1, 19, 2023>>, "Furniture", "Chairs",
           "East", "Ohio", "Standard Class", "Consumer", "Bob", 100, 20, 2, 0),
    RawRow("O1", <<1, 15, 2023>>, <<1, 19, 2023>>, "Technology", "Phones",
           "East", "Ohio", "Standard Class", "Consumer", "Bob", 50, -10, 1, 20),
    RawRow("O2", <<3, 31, 2023>>, <<4, 2, 2023>>, "Furniture", "Chairs",
           "West", "Utah", "First Class", "Corporate", "Ann", 100, 20, 3, 0),
    RawRow("O3", <<3, 1, 2023>>, <<3, 1, 2023>>, "Technology", "Phones",
           "West", "Utah", "First Class", "Corporate", "Ann", 0, 5, 1, 20),
    RawRow("O4", <<12, 31, 2022>>, <<1, 2, 2023>>, "Technology", "Phones",
           "East", "Ohio", "Standard Class", "Consumer", "Bob", 0, -5, 1, 0) }

RECURSIVE SeqsUpTo(_, _)
SeqsUpTo(S, n) ==
  IF n = 0 THEN { <<>> }
  ELSE LET shorter == SeqsUpTo(S, n - 1)
       IN  shorter \cup { Append(s, x) : s \in { t \in shorter : Len(t) = n - 1 }, x \in S }

SmallCSVs == SeqsUpTo(RowPool, MaxRecords)

\* wide CSVs, so that the top-N tables have a cut-off: one row per key, one
\* key more than N.  The rows come in key order or in reverse key order, the
\* sales rise or fall along the keys, and at most one pair of neighbouring
\* keys has equal sales
WideSales(n, k, tie, falling) ==
  LET step == IF tie # 0 /\ k > tie THEN k - 1 ELSE k
  IN  10 * (IF falling THEN n + 1 - step ELSE step)

WideOrderID(i) == Alphabet[Rank("O1") + ((i - 1) % 6)]

\* TopStates + 1 states, every row a loss of a tenth of its sales
WideStates == << "Idaho", "Iowa", "Maine", "Ohio", "Texas", "Utah" >>

WideStateCSVs ==
  { [ i \in 1..(TopStates + 1) |->
        LET k == IF rev THEN TopStates + 2 - i ELSE i
            sales == WideSales(TopStates + 1, k, tie, falling)
        IN  RawRow(WideOrderID(i), <<2, 10, 2023>>, <<2, 12, 2023>>, "Furniture",
                   "Chairs", "East", WideStates[k], "First Class", "Consumer",
                   "Ann", sales, -(sales \div 10), 1, 0) ] :
      rev \in BOOLEAN, falling \in BOOLEAN, tie \in 0..TopStates }

\* TopCustomers + 1 customers of one state, every row a profit
WideCustomers ==
  << "Ann", "Bob", "Cat", "Dan", "Eve", "Fay", "Gus", "Hal", "Ida", "Jay", "Kim" >>

WideCustomerCSVs ==
  { [ i \in 1..(TopCustomers + 1) |->
        LET k == IF rev THEN TopCustomers + 2 - i ELSE i
            sales == WideSales(TopCustomers + 1, k, tie, falling)
        IN  RawRow(WideOrderID(i), <<2, 10, 2023>>, <<2, 12, 2023>>, "Technology",
                   "Phones", "West", "Utah", "Standard Class", "Corporate",
                   WideCustomers[k], sales, sales \div 10, 1, 0) ] :
      rev \in BOOLEAN, falling \in BOOLEAN, tie \in { 0, 1, TopCustomers } }

WideCSVs == WideStateCSVs \cup WideCustomerCSVs

\* a file of the working directory or its parent
NoFile == [ exists |-> FALSE, readable |-> FALSE, rows |-> <<>> ]
Unreadable == [ exists |-> TRUE, readable |-> FALSE, rows |-> <<>> ]
File(rows) == [ exists |-> TRUE, readable |-> TRUE, rows |-> rows ]

\* the columns the script reads from the CSV
RequiredColumns ==
  { "OrderID", "OrderDate", "ShipDate", "Category", "SubCategory", "Region",
    "State", "ShipMode", "Segment", "CustomerName", "Sales", "Profit",
    "Quantity", "Discount" }

\* the columns of a frame; one without rows has every column (a CSV that
\* holds only its header row, or the frame of one)
Columns(frame) == IF frame = <<>> THEN RequiredColumns ELSE DOMAIN frame[1]

\* the rows of a CSV that has no column col
Without(rows, col) ==
  [ i \in DOMAIN rows |-> [ c \in DOMAIN rows[i] \ { col } |-> rows[i][c] ] ]

(***************************************************************************)
(* Dates.                                                                  *)
(***************************************************************************)
\* pd.to_datetime of an M/D/YYYY cell
to_datetime(mdy) == mdy[3] * 10000 + mdy[1] * 100 + mdy[2]

IsLeap(y) == (y % 4 = 0 /\ y % 100 # 0) \/ y % 400 = 0

DaysBeforeMonth == << 0, 31, 59, 90, 120, 151, 181, 212, 243, 273, 304, 334 >>

\* proleptic Gregorian day number of a date
Ordinal(d) ==
  LET y == d \div 10000
      m == (d \div 100) % 100
  IN  365 * (y - 1) + ((y - 1) \div 4) - ((y - 1) \div 100) + ((y - 1) \div 400)
        + DaysBeforeMonth[m] + (IF m > 2 /\ IsLeap(y) THEN 1 ELSE 0) + (d % 100)

\* (df['Ship Date'] - df['Order Date']).dt.days
ProcessingTime(order, ship) == Ordinal(ship) - Ordinal(order)

\* the month bin (YYYYMM) of a date, and the bin after it
MonthOf(d) == d \div 100
NextMonth(m) == IF m % 100 = 12 THEN m + 89 ELSE m + 1

\* dates the user can pick in a date_input
Calendar == { 20221231, 20230115, 20230210, 20230301, 20230331 }

(***************************************************************************)
(* float64 results.  A quotient is kept exact: num/den in lowest terms     *)
(* with den > 0, or one of the IEEE specials.                              *)
(***************************************************************************)
NaN == [ kind |-> "nan", num |-> 0, den |-> 1 ]
PosInf == [ kind |-> "inf", num |-> 1, den |-> 0 ]
NegInf == [ kind |-> "inf", num |-> -1, den |-> 0 ]

Abs(x) == IF x < 0 THEN -x ELSE x

RECURSIVE GCD(_, _)
GCD(a, b) == IF b = 0 THEN a ELSE GCD(b, a % b)

Finite(n, d) ==
  LET g == GCD(Abs(n), Abs(d))
      s == IF d < 0 THEN -1 ELSE 1
  IN  [ kind |-> "num", num |-> (s * n) \div g, den |-> (s * d) \div g ]

\* variants of TrueDiv: every zero divisor gives nan; a zero divisor gives 0
TrueDivNaNOnly(a, b) == IF b = 0 THEN NaN ELSE Finite(a, b)
TrueDivZero(a, b) == IF b = 0 THEN Finite(0, 1) ELSE Finite(a, b)

\* a / b on float64 (numpy scalars and Series alike): a zero divisor gives
\* nan or a signed infinity and a warning at most, never an exception
TrueDiv(a, b) ==
  IF b # 0 THEN Finite(a, b)
  ELSE IF a = 0 THEN NaN
  ELSE IF a > 0 THEN PosInf ELSE NegInf

\* x * 100
Times100(x) == IF x.kind = "num" THEN Finite(x.num * 100, x.den) ELSE x

(***************************************************************************)
(* Frames: the pandas operations the script uses.                          *)
(***************************************************************************)
\* frame[col].sum()
RECURSIVE Sum(_, _)
Sum(frame, col) ==
  IF frame = <<>> THEN 0 ELSE frame[1][col] + Sum(Tail(frame), col)

\* frame[col].unique(): the distinct values in order of first appearance
unique(frame, col) ==
  LET F[i \in 0..Len(frame)] ==
        IF i = 0 THEN <<>>
        ELSE IF \E j \in 1..(i - 1) : frame[j][col] = frame[i][col]
             THEN F[i - 1]
             ELSE Append(F[i - 1], frame[i][col])
  IN  F[Len(frame)]

\* frame[col].nunique()
nunique(frame, col) == Cardinality({ frame[i][col] : i \in DOMAIN frame })

\* a variant of isin: an empty list selects everything
isinOrAll(v, values) == values = <<>> \/ \E i \in DOMAIN values : values[i] = v

\* series.isin(values)
isin(v, values) == \E i \in DOMAIN values : values[i] = v

\* a variant of DateMask: the end date excluded
DateMaskOpenEnd(d, start, end) == d >= start /\ d < end

\* (df['Order Date'] >= start_date) & (df['Order Date'] <= end_date)
DateMask(d, start, end) == d >= start /\ d <= end

\* frame[col].min() / .max() of a non-empty frame
ColMin(frame, col) ==
  CHOOSE v \in { frame[i][col] : i \in DOMAIN frame } :
    \A i \in DOMAIN frame : v <= frame[i][col]
ColMax(frame, col) ==
  CHOOSE v \in { frame[i][col] : i \in DOMAIN frame } :
    \A i \in DOMAIN frame : v >= frame[i][col]

\* the keys of groupby(col), which sorts them (sort=True is the default)
KeyBefore(a, b) == Rank(a) < Rank(b)

SortedKeys(S) ==
  [ i \in 1..Cardinality(S) |->
      CHOOSE k \in S : Cardinality({ x \in S : KeyBefore(x, k) }) = i - 1 ]

\* a variant of GroupKeys: groupby(col, sort=False), keys as first met
FirstSeenKeys(frame, col) == unique(frame, col)

GroupKeys(frame, col) == SortedKeys({ frame[i][col] : i \in DOMAIN frame })

\* the rows of one group
Group(frame, col, k) == SelectSeq(frame, LAMBDA r : r[col] = k)

\* a variant of GroupSum: 'first' in place of 'sum'
GroupSumFirstRow(frame, col, cols) ==
  LET keys == GroupKeys(frame, col)
  IN  [ i \in DOMAIN keys |->
          (col :> keys[i]) @@ [ c \in cols |-> Group(frame, col, keys[i])[1][c] ] ]

\* frame.groupby(col).agg({c: 'sum' for c in cols}).reset_index()
GroupSum(frame, col, cols) ==
  LET keys == GroupKeys(frame, col)
  IN  [ i \in DOMAIN keys |->
          (col :> keys[i]) @@ [ c \in cols |-> Sum(Group(frame, col, keys[i]), c) ] ]

\* table['Profit Margin'] = (table['Profit'] / table['Sales']) * 100
WithProfitMargin(table) ==
  [ i \in DOMAIN table |->
      table[i] @@ ("ProfitMargin" :> Times100(TrueDiv(table[i].Profit, table[i].Sales))) ]

\* table['Losses'] = abs(table['Profit'])
WithLosses(table) ==
  [ i \in DOMAIN table |-> table[i] @@ ("Losses" :> Abs(table[i].Profit)) ]

\* table.head(n)
head(table, n) == SubSeq(table, 1, IF Len(table) < n THEN Len(table) ELSE n)

\* table.sort_values(col, ascending=False): the default kind is quicksort,
\* which is not stable, so rows with equal values may come out in any order
RECURSIVE sort_values_desc(_, _)
sort_values_desc(table, col) ==
  IF table = <<>> THEN { <<>> }
  ELSE UNION
         { LET rest == [ j \in 1..(Len(table) - 1) |->
                           IF j < i THEN table[j] ELSE table[j + 1] ]
           IN  { <<table[i]>> \o t : t \in sort_values_desc(rest, col) } :
             i \in { k \in DOMAIN table :
                       \A j \in DOMAIN table : table[k][col] >= table[j][col] } }

\* the fast path of nlargest: the n largest, equal values taken and listed
\* in table order (keep='first', mergesort)
RECURSIVE LargestFirst(_, _, _)
LargestFirst(table, n, col) ==
  IF n = 0 \/ table = <<>> THEN <<>>
  ELSE LET i == CHOOSE k \in DOMAIN table :
                  /\ \A j \in DOMAIN table : table[k][col] >= table[j][col]
                  /\ \A j \in DOMAIN table : j < k => table[j][col] < table[k][col]
           rest == [ j \in 1..(Len(table) - 1) |-> IF j < i THEN table[j] ELSE table[j + 1] ]
       IN  <<table[i]>> \o LargestFirst(rest, n - 1, col)

\* table.nlargest(n, col): with n >= len(table) pandas takes the slow path,
\* sort_values(ascending=False).head(n); otherwise the fast path
nlargest(table, n, col) ==
  IF n >= Len(table)
  THEN { head(t, n) : t \in sort_values_desc(table, col) }
  ELSE { LargestFirst(table, n, col) }

\* the month bins lo, ..., hi
RECURSIVE MonthRange(_, _)
MonthRange(lo, hi) ==
  IF lo > hi THEN <<>> ELSE <<lo>> \o MonthRange(NextMonth(lo), hi)

\* a variant of MonthBins: only the months that have a row
OccupiedMonths(frame) ==
  LET S == { MonthOf(frame[i].OrderDate) : i \in DOMAIN frame }
  IN  [ i \in 1..Cardinality(S) |->
          CHOOSE m \in S : Cardinality({ x \in S : x < m }) = i - 1 ]

\* groupby(pd.Grouper(key='Order Date', freq='M')): one bin per calendar
\* month from the month of the earliest row to the month of the latest,
\* empty months included; no bin for an empty frame
MonthBins(frame) ==
  IF frame = <<>> THEN <<>>
  ELSE MonthRange(MonthOf(ColMin(frame, "OrderDate")), MonthOf(ColMax(frame, "OrderDate")))

\* .agg({'Sales': 'sum', 'Profit': 'sum'}).reset_index() over the month bins
MonthlySum(frame) ==
  LET bins == MonthBins(frame)
  IN  [ i \in DOMAIN bins |->
          LET rows == SelectSeq(frame, LAMBDA r : MonthOf(r.OrderDate) = bins[i])
          IN  [ OrderDate |-> bins[i], Sales |-> Sum(rows, "Sales"),
                Profit |-> Sum(rows, "Profit") ] ]

\* groupby('Ship Mode').agg({'Order ID': 'nunique', 'Processing Time': 'mean'})
\* with 'Order ID' renamed to 'Total Orders'
ShipModeOrders(frame) ==
  LET keys == GroupKeys(frame, "ShipMode")
  IN  [ i \in DOMAIN keys |->
          LET rows == Group(frame, "ShipMode", keys[i])
          IN  [ ShipMode |-> keys[i], TotalOrders |-> nunique(rows, "OrderID"),
                ProcessingTime |-> TrueDiv(Sum(rows, "ProcessingTime"), Len(rows)) ] ]

\* groupby('Discount').agg({'Profit': 'mean', 'Sales': 'mean'}): numeric keys
DiscountMeans(frame) ==
  LET S == { frame[i].Discount : i \in DOMAIN frame }
      keys == [ i \in 1..Cardinality(S) |->
                  CHOOSE k \in S : Cardinality({ x \in S : x < k }) = i - 1 ]
  IN  [ i \in DOMAIN keys |->
          LET rows == Group(frame, "Discount", keys[i])
          IN  [ Discount |-> keys[i], Profit |-> TrueDiv(Sum(rows, "Profit"), Len(rows)),
                Sales |-> TrueDiv(Sum(rows, "Sales"), Len(rows)) ] ]

\* groupby(['Category', 'Sub-Category']).agg({'Profit': 'sum'}): the key
\* pairs in lexicographic order
CatSubcatProfit(frame) ==
  LET S == { <<frame[i].Category, frame[i].SubCategory>> : i \in DOMAIN frame }
      Before(a, b) == \/ KeyBefore(a[1], b[1])
                      \/ a[1] = b[1] /\ KeyBefore(a[2], b[2])
      keys == [ i \in 1..Cardinality(S) |->
                  CHOOSE k \in S : Cardinality({ x \in S : Before(x, k) }) = i - 1 ]
  IN  [ i \in DOMAIN keys |->
          [ Category |-> keys[i][1], SubCategory |-> keys[i][2],
            Profit |-> Sum(SelectSeq(frame, LAMBDA r : r.Category = keys[i][1]
                                                       /\ r.SubCategory = keys[i][2]),
                           "Profit") ] ]

(***************************************************************************)
(* State.                                                                  *)
(***************************************************************************)
VARIABLES
  files,      \* 'Sample - Superstore.csv' in the working directory and in its parent
  cache,      \* the st.cache_data entry of load_data
  ui,         \* the session's widget state: date inputs and unchecked checkboxes
  changes,    \* widget changes made so far
  pc,         \* position of the running script
  messages,   \* st.error / st.info / exception boxes shown by this run
  df,
  min_date, max_date, start_date, end_date,
  selected,   \* selected_categories, selected_subcategories, ... by column
  filtered_df,
  kpi,        \* the five st.metric values of tab1
  monthly_sales, category_sales, region_sales, shipmode_orders,
  subcategory_sales, shipmode_sales, segment_sales,
  customer_sales,  \* the groupby('Customer Name') table before .sort_values().head(10)
  top_customers, state_metrics, top_5_states,
  cat_subcat_profit, subcat_metrics, discount_profit,
  loss_df, category_losses, state_losses, top_5_loss_states,
  refreshes,  \* history: data refreshes so far
  body_calls, \* history: executions of the body of load_data so far
  trigger,    \* history: what started the running script
  source,     \* history: the files as the body of load_data last saw them
  previous    \* history: the filter and the subset of the run before this one

session == << files, cache, ui, changes >>
sidebar == << min_date, max_date, start_date, end_date, selected, filtered_df >>
tab1 == << kpi, monthly_sales, category_sales, region_sales, shipmode_orders >>
tab2 == << subcategory_sales, shipmode_sales, segment_sales, customer_sales,
           top_customers, state_metrics, top_5_states >>
tab3 == << cat_subcat_profit, subcat_metrics, discount_profit, loss_df,
           category_losses, state_losses, top_5_loss_states >>
history == << refreshes, body_calls, trigger, source, previous >>
vars == << session, pc, messages, df, sidebar, tab1, tab2, tab3, history >>

NoSelection == [ c \in { FilterColumns[i] : i \in DOMAIN FilterColumns } |-> <<>> ]
NoKPI == [ total_sales |-> 0, total_profit |-> 0, margin |-> NaN,
           total_losses |-> 0, total_orders |-> 0 ]

\* the names of a script run before it has assigned them
Fresh ==
  /\ messages' = {}
  /\ df' = <<>>
  /\ min_date' = 0 /\ max_date' = 0 /\ start_date' = 0 /\ end_date' = 0
  /\ selected' = NoSelection
  /\ filtered_df' = <<>>
  /\ kpi' = NoKPI
  /\ monthly_sales' = <<>> /\ category_sales' = <<>> /\ region_sales' = <<>>
  /\ shipmode_orders' = <<>>
  /\ subcategory_sales' = <<>> /\ shipmode_sales' = <<>> /\ segment_sales' = <<>>
  /\ customer_sales' = <<>> /\ top_customers' = <<>>
  /\ state_metrics' = <<>> /\ top_5_states' = <<>>
  /\ cat_subcat_profit' = <<>> /\ subcat_metrics' = <<>> /\ discount_profit' = <<>>
  /\ loss_df' = <<>> /\ category_losses' = <<>>
  /\ state_losses' = <<>> /\ top_5_loss_states' = <<>>

\* the file systems a session can start on
FileSystems ==
  { [ cwd |-> File(rows), parent |-> NoFile ] : rows \in SmallCSVs \cup WideCSVs }
    \cup { [ cwd |-> NoFile, parent |-> f ] :
             f \in { NoFile, Unreadable } \cup { File(rows) : rows \in SeqsUpTo(RowPool, 1) } }
    \cup { [ cwd |-> Unreadable, parent |-> f ] :
             f \in { NoFile } \cup { File(<<r>>) : r \in RowPool } }
    \cup { [ cwd |-> File(<<r>>), parent |-> File(<<q>>) ] : r, q \in RowPool }

\* no body of load_data has run, no script run has ended
NoSource == [ cwd |-> NoFile, parent |-> NoFile ]
NoRun == [ filtered |-> FALSE ]

HistoryInit ==
  /\ refreshes = 0
  /\ body_calls = 0
  /\ trigger = "start"
  /\ source = NoSource
  /\ previous = NoRun

\* the session before its first script run
SessionInit ==
  /\ cache = [ has |-> FALSE, value |-> <<>>, not_found |-> FALSE ]
  /\ ui = [ start |-> 0, end |-> 0, unchecked |-> {} ]
  /\ changes = 0
  /\ pc = "load_data"
  /\ messages = {}
  /\ df = <<>>
  /\ min_date = 0 /\ max_date = 0 /\ start_date = 0 /\ end_date = 0
  /\ selected = NoSelection
  /\ filtered_df = <<>>
  /\ kpi = NoKPI
  /\ monthly_sales = <<>> /\ category_sales = <<>> /\ region_sales = <<>>
  /\ shipmode_orders = <<>>
  /\ subcategory_sales = <<>> /\ shipmode_sales = <<>> /\ segment_sales = <<>>
  /\ customer_sales = <<>> /\ top_customers = <<>>
  /\ state_metrics = <<>> /\ top_5_states = <<>>
  /\ cat_subcat_profit = <<>> /\ subcat_metrics = <<>> /\ discount_profit = <<>>
  /\ loss_df = <<>> /\ category_losses = <<>>
  /\ state_losses = <<>> /\ top_5_loss_states = <<>>
  /\ HistoryInit

Init ==
  /\ files \in FileSystems
  /\ SessionInit

(***************************************************************************)
(* load_data and the df.empty check.                                       *)
(***************************************************************************)
\* the rows of the file as the frame load_data returns: dates parsed,
\* 'Processing Time' added, RangeIndex 0..n-1
ReadFrame(rows) ==
  [ i \in DOMAIN rows |->
      LET order == to_datetime(rows[i].OrderDate)
          ship == to_datetime(rows[i].ShipDate)
      IN  [ rows[i] EXCEPT !.OrderDate = order, !.ShipDate = ship ]
            @@ [ index |-> i - 1, ProcessingTime |-> ProcessingTime(order, ship) ] ]

\* the body of load_data: the chosen path, then read_csv, which raises on a
\* file it cannot read, then df['Order Date'] and df['Ship Date'], which
\* raise KeyError on a CSV without the column; with no file, st.error and an
\* empty DataFrame.  No other column is looked at
load_data_body(fs) ==
  LET found == fs.cwd.exists \/ fs.parent.exists
      file == IF fs.cwd.exists THEN fs.cwd ELSE fs.parent
  IN  IF ~found THEN [ raised |-> FALSE, value |-> <<>>, not_found |-> TRUE ]
      ELSE IF ~file.readable THEN [ raised |-> TRUE, value |-> <<>>, not_found |-> FALSE ]
      ELSE IF ~({ "OrderDate", "ShipDate" } \subseteq Columns(file.rows))
      THEN [ raised |-> TRUE, value |-> <<>>, not_found |-> FALSE ]
      ELSE [ raised |-> FALSE, value |-> ReadFrame(file.rows), not_found |-> FALSE ]

\* a variant of cache_data: no memoization, the body runs on every call
cache_data_off(c, fs) == load_data_body(fs) @@ [ ran |-> TRUE ]

\* @st.cache_data on a function without arguments: the stored result if
\* there is one, the body's otherwise
cache_data(c, fs) ==
  IF c.has
  THEN [ raised |-> FALSE, value |-> c.value, not_found |-> c.not_found, ran |-> FALSE ]
  ELSE load_data_body(fs) @@ [ ran |-> TRUE ]

\* df = load_data(): a cached result (its st.error replayed) or the body's;
\* an exception is not cached and ends the run
LoadData ==
  /\ pc = "load_data"
  /\ LET r == cache_data(cache, files)
     IN  IF r.raised
         THEN /\ pc' = "exception"
              /\ messages' = { "exception" }
              /\ UNCHANGED << cache, df >>
         ELSE /\ pc' = "check_empty"
              /\ df' = r.value
              /\ cache' = [ has |-> TRUE, value |-> r.value, not_found |-> r.not_found ]
              /\ messages' = IF r.not_found THEN { "Dataset file not found" } ELSE {}
  /\ UNCHANGED << files, ui, changes, sidebar, tab1, tab2, tab3 >>

\* if df.empty: st.error(...); st.stop()
CheckEmpty ==
  /\ pc = "check_empty"
  /\ IF df = <<>>
     THEN /\ messages' = messages \cup { "Failed to load the dataset" }
          /\ pc' = "stopped"
     ELSE /\ pc' = "sidebar"
          /\ UNCHANGED messages
  /\ UNCHANGED << session, df, sidebar, tab1, tab2, tab3 >>

(***************************************************************************)
(* The sidebar widgets and the filter.                                     *)
(***************************************************************************)
\* st.sidebar.date_input(label, value=default, ...): the session's value
\* once the user has set one, the default before
date_input(set, default) == IF set = 0 THEN default ELSE set

\* for v in df[col].unique(): if st.checkbox(v, value=True, key=v): append
CheckedValues(frame, col, unchecked) ==
  SelectSeq(unique(frame, col), LAMBDA v : v \notin unchecked)

\* a variant of Mask: the sub-category test left out
MaskNoSubCategory(r, start, end, sel) ==
  /\ DateMask(r.OrderDate, start, end)
  /\ isin(r.Category, sel.Category)
  /\ isin(r.Region, sel.Region)
  /\ isin(r.ShipMode, sel.ShipMode)
  /\ isin(r.State, sel.State)
  /\ isin(r.Segment, sel.Segment)

\* the boolean mask of one row: the date range and the six isin tests
Mask(r, start, end, sel) ==
  /\ DateMask(r.OrderDate, start, end)
  /\ isin(r.Category, sel.Category)
  /\ isin(r.Region, sel.Region)
  /\ isin(r.ShipMode, sel.ShipMode)
  /\ isin(r.State, sel.State)
  /\ isin(r.Segment, sel.Segment)
  /\ isin(r.SubCategory, sel.SubCategory)

\* df[mask]: the rows that pass, in order, each keeping its index
ApplyFilters(frame, start, end, sel) ==
  SelectSeq(frame, LAMBDA r : Mask(r, start, end, sel))

\* an uncaught exception: Streamlit shows it and the run ends
Raise ==
  /\ pc' = "exception"
  /\ messages' = messages \cup { "exception" }

\* the filtered columns up to the first one the frame does not have
ColumnsRead(frame) ==
  { FilterColumns[i] : i \in { k \in DOMAIN FilterColumns :
      \A j \in 1..(k - 1) : FilterColumns[j] \in Columns(frame) } }

\* a variant of Sidebar: df = df[mask], the filter rebinding df itself
SidebarRebindsDf ==
  /\ pc = "sidebar"
  /\ DOMAIN NoSelection \subseteq Columns(df)
  /\ LET lo == ColMin(df, "OrderDate")
         hi == ColMax(df, "OrderDate")
         start == date_input(ui.start, lo)
         end == date_input(ui.end, hi)
         sel == [ c \in DOMAIN NoSelection |-> CheckedValues(df, c, ui.unchecked) ]
     IN  /\ min_date' = lo
         /\ max_date' = hi
         /\ start_date' = start
         /\ end_date' = end
         /\ selected' = sel
         /\ filtered_df' = ApplyFilters(df, start, end, sel)
         /\ df' = filtered_df'
  /\ pc' = "tab1"
  /\ UNCHANGED << session, messages, tab1, tab2, tab3 >>

\* df[col].unique() raises KeyError on a frame without the column
Sidebar ==
  /\ pc = "sidebar"
  /\ LET lo == ColMin(df, "OrderDate")
         hi == ColMax(df, "OrderDate")
         start == date_input(ui.start, lo)
         end == date_input(ui.end, hi)
         sel == [ c \in DOMAIN NoSelection |->
                    IF c \in ColumnsRead(df) \cap Columns(df)
                    THEN CheckedValues(df, c, ui.unchecked) ELSE <<>> ]
     IN  /\ min_date' = lo
         /\ max_date' = hi
         /\ start_date' = start
         /\ end_date' = end
         /\ selected' = sel
         /\ IF DOMAIN NoSelection \subseteq Columns(df)
            THEN /\ filtered_df' = ApplyFilters(df, start, end, sel)
                 /\ pc' = "tab1"
                 /\ UNCHANGED messages
            ELSE /\ Raise
                 /\ UNCHANGED filtered_df
  /\ UNCHANGED << session, df, tab1, tab2, tab3 >>

(***************************************************************************)
(* tab1: key metrics, monthly trend, category, region, ship mode.          *)
(***************************************************************************)
\* a variant of TotalLosses: the profits of all rows netted
TotalLossesNet(frame) == Abs(Sum(frame, "Profit"))

\* abs(filtered_df[filtered_df['Profit'] < 0]['Profit'].sum())
TotalLosses(frame) == Abs(Sum(SelectSeq(frame, LAMBDA r : r.Profit < 0), "Profit"))

\* filtered_df['Profit'].sum() / filtered_df['Sales'].sum() * 100
AverageMargin(frame) == Times100(TrueDiv(Sum(frame, "Profit"), Sum(frame, "Sales")))

KeyMetrics(frame) ==
  [ total_sales |-> Sum(frame, "Sales"),
    total_profit |-> Sum(frame, "Profit"),
    margin |-> AverageMargin(frame),
    total_losses |-> TotalLosses(frame),
    total_orders |-> nunique(frame, "OrderID") ]

\* filtered_df['Sales'], ['Profit'] and ['Order ID'] raise KeyError on a
\* frame without the column, before the first table is made
Tab1 ==
  /\ pc = "tab1"
  /\ IF { "Sales", "Profit", "OrderID" } \subseteq Columns(df)
     THEN /\ kpi' = KeyMetrics(filtered_df)
          /\ monthly_sales' = MonthlySum(filtered_df)
          /\ category_sales' =
               WithProfitMargin(GroupSum(filtered_df, "Category", {"Sales", "Profit"}))
          /\ region_sales' =
               WithProfitMargin(GroupSum(filtered_df, "Region", {"Sales", "Profit"}))
          /\ shipmode_orders' = ShipModeOrders(filtered_df)
          /\ pc' = "tab2"
          /\ UNCHANGED messages
     ELSE /\ Raise
          /\ UNCHANGED tab1
  /\ UNCHANGED << session, df, sidebar, tab2, tab3 >>

(***************************************************************************)
(* tab2: sub-category, ship mode, segment, top customers, top states.      *)
(***************************************************************************)
\* groupby('Customer Name') raises KeyError on a frame without the column,
\* after the three tables before it
Tab2 ==
  /\ pc = "tab2"
  /\ subcategory_sales' = GroupSum(filtered_df, "SubCategory", {"Sales"})
  /\ shipmode_sales' = GroupSum(filtered_df, "ShipMode", {"Sales"})
  /\ segment_sales' = GroupSum(filtered_df, "Segment", {"Sales"})
  /\ IF "CustomerName" \in Columns(df)
     THEN /\ customer_sales' = GroupSum(filtered_df, "CustomerName", {"Sales", "Profit"})
          /\ \E sorted \in sort_values_desc(customer_sales', "Sales") :
               top_customers' = head(sorted, TopCustomers)
          /\ state_metrics' =
               WithProfitMargin(GroupSum(filtered_df, "State", {"Profit", "Sales"}))
          /\ top_5_states' \in nlargest(state_metrics', TopStates, "Sales")
          /\ pc' = "tab3"
          /\ UNCHANGED messages
     ELSE /\ Raise
          /\ UNCHANGED << customer_sales, top_customers, state_metrics, top_5_states >>
  /\ UNCHANGED << session, df, sidebar, tab1, tab3 >>

(***************************************************************************)
(* tab3: profit by category and sub-category, discount, loss analysis.     *)
(***************************************************************************)
\* the aggregation of 'Quantity' and groupby('Discount') raise KeyError on a
\* frame without the column, after the tables before them
Tab3 ==
  /\ pc = "tab3"
  /\ cat_subcat_profit' = CatSubcatProfit(filtered_df)
  /\ IF "Quantity" \notin Columns(df)
     THEN /\ Raise
          /\ UNCHANGED << subcat_metrics, discount_profit, loss_df, category_losses,
                          state_losses, top_5_loss_states >>
     ELSE /\ subcat_metrics' =
               GroupSum(filtered_df, "SubCategory", {"Sales", "Profit", "Quantity"})
          /\ IF "Discount" \notin Columns(df)
             THEN /\ Raise
                  /\ UNCHANGED << discount_profit, loss_df, category_losses,
                                  state_losses, top_5_loss_states >>
             ELSE /\ discount_profit' = DiscountMeans(filtered_df)
                  /\ loss_df' = SelectSeq(filtered_df, LAMBDA r : r.Profit < 0)
                  /\ IF loss_df' # <<>>
                     THEN /\ category_losses' =
                               WithLosses(GroupSum(loss_df', "Category", {"Profit"}))
                          /\ state_losses' =
                               WithLosses(GroupSum(loss_df', "State", {"Profit"}))
                          /\ top_5_loss_states' \in
                               nlargest(state_losses', TopStates, "Losses")
                          /\ UNCHANGED messages
                     ELSE /\ messages' =
                               messages \cup { "No loss-making transactions found" }
                          /\ UNCHANGED << category_losses, state_losses,
                                          top_5_loss_states >>
                  /\ pc' = "done"
  /\ UNCHANGED << session, df, sidebar, tab1, tab2 >>

(***************************************************************************)
(* The user.  A widget change reruns the script from the top.              *)
(***************************************************************************)
\* the checkboxes the last run rendered
Rendered == UNION { { df[i][c] : i \in DOMAIN df } : c \in DOMAIN NoSelection }

ToggleCheckbox ==
  /\ pc = "done"
  /\ changes < MaxChanges
  /\ \E label \in Rendered :
       ui' = [ ui EXCEPT !.unchecked =
                 IF label \in @ THEN @ \ { label } ELSE @ \cup { label } ]
  /\ changes' = changes + 1
  /\ pc' = "load_data"
  /\ Fresh
  /\ UNCHANGED << files, cache >>

\* the date inputs accept a date of [min_date, max_date]
SetStartDate ==
  /\ pc = "done"
  /\ changes < MaxChanges
  /\ \E d \in Calendar :
       /\ min_date <= d /\ d <= max_date
       /\ d # start_date
       /\ ui' = [ ui EXCEPT !.start = d ]
  /\ changes' = changes + 1
  /\ pc' = "load_data"
  /\ Fresh
  /\ UNCHANGED << files, cache >>

SetEndDate ==
  /\ pc = "done"
  /\ changes < MaxChanges
  /\ \E d \in Calendar :
       /\ min_date <= d /\ d <= max_date
       /\ d # end_date
       /\ ui' = [ ui EXCEPT !.end = d ]
  /\ changes' = changes + 1
  /\ pc' = "load_data"
  /\ Fresh
  /\ UNCHANGED << files, cache >>

\* "Rerun" with no widget changed
Rerun ==
  /\ pc \in { "done", "stopped", "exception" }
  /\ pc' = "load_data"
  /\ Fresh
  /\ UNCHANGED << files, cache, ui, changes >>

\* a session on a source that stays as it is
Next ==
  \/ LoadData /\ UNCHANGED history
  \/ CheckEmpty /\ UNCHANGED history
  \/ Sidebar /\ UNCHANGED history
  \/ Tab1 /\ UNCHANGED history
  \/ Tab2 /\ UNCHANGED history
  \/ Tab3 /\ UNCHANGED history
  \/ ToggleCheckbox /\ UNCHANGED history
  \/ SetStartDate /\ UNCHANGED history
  \/ SetEndDate /\ UNCHANGED history
  \/ Rerun /\ UNCHANGED history

Spec == Init /\ [][Next]_vars

(***************************************************************************)
(* Sessions with data refreshes.  The script has no refresh control of its *)
(* own: the result of load_data stays in st.cache_data until the cache is  *)
(* cleared ("Clear cache" of the app menu, or a restart of the app), which *)
(* also clears the session's widget state.  The source may change between  *)
(* two script runs.  These sessions are made of filter changes and data    *)
(* refreshes, and the history variables record what happened.              *)
(***************************************************************************)
\* the CSVs of these sessions: two rows of different months and regions, one
\* of them or both
RefreshPool == { r \in RowPool : r.Sales = 100 }

RefreshCSVs ==
  { <<r>> : r \in RefreshPool }
    \cup { <<r, q>> : r \in { x \in RefreshPool : x.Region = "East" },
                      q \in { x \in RefreshPool : x.Region = "West" } }

RefreshFileSystems ==
  { [ cwd |-> File(rows), parent |-> NoFile ] : rows \in RefreshCSVs }
    \cup { [ cwd |-> NoFile, parent |-> NoFile ], [ cwd |-> Unreadable, parent |-> NoFile ] }

InitRefresh ==
  /\ files \in RefreshFileSystems
  /\ SessionInit

\* the run that ends here, as the next run will remember it
ThisRun ==
  IF pc = "done"
  THEN [ filtered |-> TRUE, df |-> df, start_date |-> start_date, end_date |-> end_date,
         selected |-> selected, filtered_df |-> filtered_df ]
  ELSE NoRun

\* load_data is called: the body runs unless the cache answers
CallCounted ==
  /\ body_calls' = IF cache_data(cache, files).ran THEN body_calls + 1 ELSE body_calls
  /\ source' = IF cache_data(cache, files).ran THEN files ELSE source
  /\ UNCHANGED << refreshes, trigger, previous >>

\* a widget change starts the next run
FilterChanged ==
  /\ trigger' = "filter"
  /\ previous' = ThisRun
  /\ UNCHANGED << refreshes, body_calls, source >>

\* a data refresh: the cache of load_data and the widget state are cleared
\* and the script runs again
Refresh ==
  /\ pc \in { "done", "stopped", "exception" }
  /\ refreshes < MaxRefreshes
  /\ cache' = [ has |-> FALSE, value |-> <<>>, not_found |-> FALSE ]
  /\ ui' = [ start |-> 0, end |-> 0, unchecked |-> {} ]
  /\ pc' = "load_data"
  /\ Fresh
  /\ refreshes' = refreshes + 1
  /\ trigger' = "refresh"
  /\ previous' = ThisRun
  /\ UNCHANGED << files, changes, body_calls, source >>

\* the CSV is replaced, removed, added or made unreadable while no script
\* runs (a change during a run is one before it or one after it: the file
\* is read in load_data only)
ChangeSource ==
  /\ pc \in { "done", "stopped", "exception" }
  /\ files' \in RefreshFileSystems \ { files }
  /\ UNCHANGED << cache, ui, changes, pc, messages, df, sidebar, tab1, tab2, tab3, history >>

NextRefresh ==
  \/ LoadData /\ CallCounted
  \/ CheckEmpty /\ UNCHANGED history
  \/ Sidebar /\ UNCHANGED history
  \/ Tab1 /\ UNCHANGED history
  \/ Tab2 /\ UNCHANGED history
  \/ Tab3 /\ UNCHANGED history
  \/ ToggleCheckbox /\ FilterChanged
  \/ SetStartDate /\ FilterChanged
  \/ SetEndDate /\ FilterChanged
  \/ Refresh
  \/ ChangeSource

SpecRefresh == InitRefresh /\ [][NextRefresh]_vars

(***************************************************************************)
(* Sessions that run the script again and again on one source: filter      *)
(* changes and "Rerun", each run remembering the one before it.            *)
(***************************************************************************)
\* "Rerun" starts the next run
Rerunning ==
  /\ trigger' = "rerun"
  /\ previous' = ThisRun
  /\ UNCHANGED << refreshes, body_calls, source >>

NextRerun ==
  \/ LoadData /\ UNCHANGED history
  \/ CheckEmpty /\ UNCHANGED history
  \/ Sidebar /\ UNCHANGED history
  \/ Tab1 /\ UNCHANGED history
  \/ Tab2 /\ UNCHANGED history
  \/ Tab3 /\ UNCHANGED history
  \/ ToggleCheckbox /\ FilterChanged
  \/ SetStartDate /\ FilterChanged
  \/ SetEndDate /\ FilterChanged
  \/ Rerun /\ Rerunning

SpecRerun == InitRefresh /\ [][NextRerun]_vars

(***************************************************************************)
(* Sessions on a CSV that lacks one of the columns the script reads, and   *)
(* on the same CSV with every column.                                      *)
(***************************************************************************)
SchemaCSVs ==
  RefreshCSVs \cup { Without(rows, col) : rows \in RefreshCSVs, col \in RequiredColumns }

SchemaFileSystems ==
  { [ cwd |-> File(rows), parent |-> NoFile ] : rows \in SchemaCSVs }
    \cup { [ cwd |-> NoFile, parent |-> File(rows) ] : rows \in SchemaCSVs }

InitSchema ==
  /\ files \in SchemaFileSystems
  /\ SessionInit

SpecSchema == InitSchema /\ [][Next]_vars

(***************************************************************************)
(* Vocabulary of the properties.                                           *)
(***************************************************************************)
Values(seq) == { seq[i] : i \in DOMAIN seq }

\* the sum of a column over the rows at the positions I
RECURSIVE SumOver(_, _, _)
SumOver(I, frame, col) ==
  IF I = {} THEN 0
  ELSE LET i == CHOOSE x \in I : TRUE
       IN  frame[i][col] + SumOver(I \ { i }, frame, col)

Total(frame, col) == SumOver(DOMAIN frame, frame, col)

\* how far the running script has come
Filtered == pc \in { "tab1", "tab2", "tab3", "done" }
Tab1Done == pc \in { "tab2", "tab3", "done" }
Tab2Done == pc \in { "tab3", "done" }
Tab3Done == pc = "done"

\* row r of df passes the filter configuration of this run
Passes(r) ==
  /\ start_date <= r.OrderDate
  /\ r.OrderDate <= end_date
  /\ \A c \in DOMAIN selected : r[c] \in Values(selected[c])

\* C1: a row of df is in filtered_df if and only if its order date lies in
\* [start_date, end_date], both ends included, and its value in each of the
\* six filtered columns is among the selected values of that column
C1_FilterIsConjunction ==
  Filtered =>
    /\ \A i \in DOMAIN df : (df[i] \in Values(filtered_df)) <=> Passes(df[i])
    /\ \A j \in DOMAIN filtered_df : filtered_df[j] \in Values(df)
    /\ \A j, k \in DOMAIN filtered_df : j < k => filtered_df[j].index < filtered_df[k].index

\* a run in which one row passes and another fails, on its date alone or on
\* its sub-category
C1_Witness ==
  /\ Filtered
  /\ filtered_df # <<>>
  /\ \/ \E i \in DOMAIN df :
          /\ df[i] \notin Values(filtered_df)
          /\ df[i].OrderDate > end_date
          /\ \A c \in DOMAIN selected : df[i][c] \in Values(selected[c])
     \/ \E i \in DOMAIN df :
          /\ df[i] \notin Values(filtered_df)
          /\ start_date <= df[i].OrderDate /\ df[i].OrderDate <= end_date
          /\ df[i].SubCategory \notin Values(selected.SubCategory)

\* C2: when the selection of any one filtered column is empty, filtered_df
\* is empty, whatever the other selections and the dates are
C2_EmptySelectionEmptiesResult ==
  (Filtered /\ \E c \in DOMAIN selected : selected[c] = <<>>) => filtered_df = <<>>

\* a run over a non-empty df with exactly one column deselected entirely
C2_Witness ==
  /\ Filtered
  /\ Len(df) >= 2
  /\ \E c \in DOMAIN selected :
       /\ selected[c] = <<>>
       /\ \A o \in DOMAIN selected \ { c } : selected[o] # <<>>
  /\ \E i \in DOMAIN df : start_date <= df[i].OrderDate /\ df[i].OrderDate <= end_date
  /\ filtered_df = <<>>

\* every checkbox checked and the date inputs at [min_date, max_date]
FullSelection ==
  /\ start_date = min_date
  /\ end_date = max_date
  /\ \A c \in DOMAIN selected : \A i \in DOMAIN df : df[i][c] \in Values(selected[c])

\* C3: with every value of every filtered column selected and the date range
\* [min order date, max order date], filtered_df equals df: same rows, same
\* order
C3_FullSelectionIsIdentity ==
  (Filtered /\ FullSelection) => filtered_df = df

\* a full-selection run over rows of different dates
C3_Witness ==
  /\ Filtered
  /\ FullSelection
  /\ Len(df) >= 2
  /\ min_date < max_date
  /\ filtered_df = df

\* C4: the key metrics are the sum of sales, the sum of profit, their ratio
\* times 100, the sum of |profit| over the rows with profit < 0, and the
\* number of distinct order ids
C4_KeyMetrics ==
  Tab1Done =>
    LET sales == Total(filtered_df, "Sales")
        profit == Total(filtered_df, "Profit")
        losing == { i \in DOMAIN filtered_df : filtered_df[i].Profit < 0 }
    IN  /\ kpi.total_sales = sales
        /\ kpi.total_profit = profit
        /\ sales # 0 =>
             /\ kpi.margin.kind = "num"
             /\ kpi.margin.num * sales = 100 * profit * kpi.margin.den
        /\ kpi.total_losses = -SumOver(losing, filtered_df, "Profit")
        /\ kpi.total_orders = Cardinality({ filtered_df[i].OrderID : i \in DOMAIN filtered_df })

\* the example of the claim: sales [100, 50] with profit [20, -10]
C4_Witness ==
  /\ Tab1Done
  /\ Len(filtered_df) = 2
  /\ filtered_df[1].Sales = 100 /\ filtered_df[1].Profit = 20
  /\ filtered_df[2].Sales = 50 /\ filtered_df[2].Profit = -10
  /\ kpi.total_sales = 150
  /\ kpi.total_profit = 10
  /\ kpi.total_losses = 10
  /\ kpi.margin = [ kind |-> "num", num |-> 20, den |-> 3 ]
  /\ kpi.total_orders = 1

\* C5: over an empty filtered_df the run neither stops nor raises, the four
\* totals are 0, the average margin is NaN, and every later table is
\* computed (and empty)
C5_EmptySubsetMetrics ==
  (Filtered /\ filtered_df = <<>>) =>
    /\ pc \notin { "stopped", "exception" }
    /\ pc # "done" => ENABLED (Tab1 \/ Tab2 \/ Tab3)
    /\ Tab1Done =>
         /\ kpi.total_sales = 0 /\ kpi.total_profit = 0
         /\ kpi.total_losses = 0 /\ kpi.total_orders = 0
         /\ kpi.margin = NaN
         /\ monthly_sales = <<>> /\ category_sales = <<>> /\ region_sales = <<>>
         /\ shipmode_orders = <<>>
    /\ Tab2Done => top_customers = <<>> /\ state_metrics = <<>> /\ top_5_states = <<>>
    /\ Tab3Done => cat_subcat_profit = <<>> /\ loss_df = <<>>

\* a finished run whose filters selected nothing
C5_Witness ==
  /\ pc = "done"
  /\ df # <<>>
  /\ filtered_df = <<>>
  /\ kpi.margin = NaN

\* the positions of the rows of filtered_df whose column col is k
RowsOf(col, k) == { i \in DOMAIN filtered_df : filtered_df[i][col] = k }

\* table has one row per value of col in filtered_df, and the row's Sales is
\* the sum of sales over that value's rows
SalesByGroup(table, col) ==
  /\ { table[i][col] : i \in DOMAIN table } = { filtered_df[i][col] : i \in DOMAIN filtered_df }
  /\ \A i, j \in DOMAIN table : table[i][col] = table[j][col] => i = j
  /\ \A i \in DOMAIN table :
       table[i].Sales = SumOver(RowsOf(col, table[i][col]), filtered_df, "Sales")

Conserves(table) == Total(table, "Sales") = Total(filtered_df, "Sales")

\* the group-by tables themselves conserve the sales
GroupTablesConserve ==
  /\ Tab1Done =>
       /\ Conserves(monthly_sales)
       /\ Conserves(category_sales) /\ SalesByGroup(category_sales, "Category")
       /\ Conserves(region_sales) /\ SalesByGroup(region_sales, "Region")
  /\ Tab2Done =>
       /\ Conserves(subcategory_sales) /\ SalesByGroup(subcategory_sales, "SubCategory")
       /\ Conserves(shipmode_sales) /\ SalesByGroup(shipmode_sales, "ShipMode")
       /\ Conserves(segment_sales) /\ SalesByGroup(segment_sales, "Segment")
       /\ Conserves(customer_sales) /\ SalesByGroup(customer_sales, "CustomerName")
       /\ Conserves(state_metrics) /\ SalesByGroup(state_metrics, "State")
  /\ Tab3Done =>
       /\ Conserves(subcat_metrics)
       /\ Total(cat_subcat_profit, "Profit") = Total(filtered_df, "Profit")

CutOffSales(table, top) ==
  SumOver({ i \in DOMAIN table : table[i] \notin Values(top) }, table, "Sales")

MarginTables ==
  (IF Tab1Done THEN { <<category_sales, "Category">>, <<region_sales, "Region">> } ELSE {})
    \cup (IF Tab2Done THEN { <<state_metrics, "State">>, <<top_5_states, "State">> } ELSE {})

\* the row's Sales and Profit are the sums over its group
GroupTotals(row, col) ==
  /\ row.Sales = SumOver(RowsOf(col, row[col]), filtered_df, "Sales")
  /\ row.Profit = SumOver(RowsOf(col, row[col]), filtered_df, "Profit")

\* the margin of a row with non-zero summed sales: 100 * Profit / Sales
RatioOfSums(row) ==
  row.Sales # 0 =>
    /\ row.ProfitMargin.kind = "num"
    /\ row.ProfitMargin.num * row.Sales = 100 * row.Profit * row.ProfitMargin.den

RowMonths == { MonthOf(filtered_df[i].OrderDate) : i \in DOMAIN filtered_df }

\* every row has exactly one bucket, that of its calendar month, the buckets
\* are in calendar order, and a bucket sums exactly the rows of its month
MonthlyBuckets ==
  /\ \A i \in DOMAIN filtered_df :
       Cardinality({ b \in DOMAIN monthly_sales :
                       monthly_sales[b].OrderDate = MonthOf(filtered_df[i].OrderDate) }) = 1
  /\ \A b, c \in DOMAIN monthly_sales :
       b < c => monthly_sales[b].OrderDate < monthly_sales[c].OrderDate
  /\ \A b \in DOMAIN monthly_sales :
       LET rows == { i \in DOMAIN filtered_df :
                       MonthOf(filtered_df[i].OrderDate) = monthly_sales[b].OrderDate }
       IN  /\ monthly_sales[b].Sales = SumOver(rows, filtered_df, "Sales")
           /\ monthly_sales[b].Profit = SumOver(rows, filtered_df, "Profit")

\* C8 as stated: the monthly table has a bucket only for months that have a
\* row; a month without rows is omitted
C8_EmptyMonthsOmitted ==
  Tab1Done =>
    /\ MonthlyBuckets
    /\ { monthly_sales[b].OrderDate : b \in DOMAIN monthly_sales } = RowMonths

\* C8 (amended): each row belongs to exactly the bucket of its calendar
\* month, and the table has one bucket for every calendar month from the
\* month of the earliest row to the month of the latest; a month in between
\* that has no row is present with sums of zero, months outside are absent
C8_MonthlyBuckets ==
  Tab1Done =>
    /\ MonthlyBuckets
    /\ { monthly_sales[b].OrderDate : b \in DOMAIN monthly_sales } =
         UNION { { m \in lo..hi : m % 100 \in 1..12 } : lo, hi \in RowMonths }

\* a table with a zero bucket (February) between two months that have rows
C8_Witness ==
  /\ Tab1Done
  /\ \E b \in DOMAIN monthly_sales :
       /\ monthly_sales[b].OrderDate \notin RowMonths
       /\ monthly_sales[b].Sales = 0 /\ monthly_sales[b].Profit = 0
       /\ b > 1 /\ monthly_sales[b - 1].OrderDate \in RowMonths
       /\ b < Len(monthly_sales)

\* the position in frame of the first row whose column col is k
FirstSeen(frame, col, k) ==
  CHOOSE i \in DOMAIN frame :
    frame[i][col] = k /\ \A j \in DOMAIN frame : frame[j][col] = k => i <= j

\* top holds the n rows of table that are largest in col (all of them when
\* there are fewer), largest first
LargestN(top, table, n, col) ==
  /\ Len(top) = (IF Len(table) < n THEN Len(table) ELSE n)
  /\ \A i \in DOMAIN top : top[i] \in Values(table)
  /\ \A i, j \in DOMAIN top : i < j => top[i] # top[j] /\ top[i][col] >= top[j][col]
  /\ \A i \in DOMAIN top : \A j \in DOMAIN table :
       table[j] \notin Values(top) => table[j][col] <= top[i][col]

\* among rows equal in col, the one whose key is first met in frame comes
\* first in top, and is the one kept at the cut-off
TiesByFirstSeen(top, table, key, col, frame) ==
  /\ \A i, j \in DOMAIN top :
       (i < j /\ top[i][col] = top[j][col]) =>
         FirstSeen(frame, key, top[i][key]) < FirstSeen(frame, key, top[j][key])
  /\ \A i \in DOMAIN top : \A j \in DOMAIN table :
       (table[j] \notin Values(top) /\ table[j][col] = top[i][col]) =>
         FirstSeen(frame, key, top[i][key]) < FirstSeen(frame, key, table[j][key])

\* among rows equal in col, the one whose key sorts first comes first in top,
\* and is the one kept at the cut-off
TiesByKeyOrder(top, table, key, col) ==
  /\ \A i, j \in DOMAIN top :
       (i < j /\ top[i][col] = top[j][col]) => KeyBefore(top[i][key], top[j][key])
  /\ \A i \in DOMAIN top : \A j \in DOMAIN table :
       (table[j] \notin Values(top) /\ table[j][col] = top[i][col]) =>
         KeyBefore(top[i][key], table[j][key])

\* C9 as stated: each top-N table holds the N groups largest in its metric,
\* and groups equal in the metric are ordered, and cut off, by which key is
\* met first in the input rows
C9_TiesByInputOrder ==
  /\ Tab2Done =>
       /\ LargestN(top_customers, customer_sales, TopCustomers, "Sales")
       /\ TiesByFirstSeen(top_customers, customer_sales, "CustomerName", "Sales", filtered_df)
       /\ LargestN(top_5_states, state_metrics, TopStates, "Sales")
       /\ TiesByFirstSeen(top_5_states, state_metrics, "State", "Sales", filtered_df)
  /\ Tab3Done =>
       /\ LargestN(top_5_loss_states, state_losses, TopStates, "Losses")
       /\ TiesByFirstSeen(top_5_loss_states, state_losses, "State", "Losses", loss_df)

\* C9 (amended): each top-N table holds the N groups largest in its metric,
\* largest first.  When the top-5 state tables cut groups off, groups equal
\* in the metric are ordered, and cut off, by the sort order of their keys
\* (the order of the group-by table), not by the order of the input rows;
\* the order of equal groups is not fixed for the top-10 customers, nor for
\* a state table of at most 5 groups
C9_TopN ==
  /\ Tab2Done =>
       /\ LargestN(top_customers, customer_sales, TopCustomers, "Sales")
       /\ LargestN(top_5_states, state_metrics, TopStates, "Sales")
       /\ Len(state_metrics) > TopStates =>
            TiesByKeyOrder(top_5_states, state_metrics, "State", "Sales")
  /\ Tab3Done =>
       /\ LargestN(top_5_loss_states, state_losses, TopStates, "Losses")
       /\ Len(state_losses) > TopStates =>
            TiesByKeyOrder(top_5_loss_states, state_losses, "State", "Losses")

\* six states, the fifth and sixth largest equal in sales, and the one that
\* is kept met later in the input than the one that is cut off
C9_Witness ==
  /\ pc = "done"
  /\ Len(state_metrics) = TopStates + 1
  /\ Len(top_5_states) = TopStates
  /\ \E j \in DOMAIN state_metrics :
       /\ state_metrics[j] \notin Values(top_5_states)
       /\ state_metrics[j].Sales = top_5_states[TopStates].Sales
       /\ FirstSeen(filtered_df, "State", state_metrics[j].State)
            < FirstSeen(filtered_df, "State", top_5_states[TopStates].State)
  /\ Len(top_5_loss_states) = TopStates

\* the file load_data picks is absent or cannot be read
SourceMissingOrUnreadable ==
  \/ ~files.cwd.exists /\ ~files.parent.exists
  \/ files.cwd.exists /\ ~files.cwd.readable
  \/ ~files.cwd.exists /\ files.parent.exists /\ ~files.parent.readable

\* C10: with the source missing or unreadable the run reports the failure
\* and ends before the sidebar, the filter and every aggregation; a source
\* that is present and readable is never reported as a load failure
C10_LoadFailureIffMissing ==
  /\ SourceMissingOrUnreadable =>
       /\ pc \in { "load_data", "check_empty", "stopped", "exception" }
       /\ pc \in { "stopped", "exception" } => messages # {}
       /\ filtered_df = <<>> /\ selected = NoSelection /\ kpi = NoKPI
  /\ ~SourceMissingOrUnreadable =>
       /\ pc \notin { "stopped", "exception" }
       /\ "Failed to load the dataset" \notin messages

\* load_data has returned in this run
LoadReturned ==
  pc \in { "check_empty", "sidebar", "tab1", "tab2", "tab3", "done", "stopped" }

\* the widgets of this run show the session's widget state
WidgetsShowSession ==
  /\ start_date = (IF ui.start = 0 THEN min_date ELSE ui.start)
  /\ end_date = (IF ui.end = 0 THEN max_date ELSE ui.end)
  /\ \A c \in DOMAIN selected :
       Values(selected[c]) = { df[i][c] : i \in DOMAIN df } \ ui.unchecked

\* the subset, the key metrics and the tables of this run are those of df
\* under the widgets of this run, as far as the run has come
Recomputed ==
  /\ Filtered =>
       /\ WidgetsShowSession
       /\ \A i \in DOMAIN df : (df[i] \in Values(filtered_df)) <=> Passes(df[i])
       /\ \A j \in DOMAIN filtered_df : filtered_df[j] \in Values(df)
  /\ Tab1Done =>
       /\ kpi.total_sales = Total(filtered_df, "Sales")
       /\ kpi.total_profit = Total(filtered_df, "Profit")
       /\ kpi.total_orders = Cardinality({ filtered_df[i].OrderID : i \in DOMAIN filtered_df })
       /\ MonthlyBuckets
  /\ GroupTablesConserve

\* C11: in a session of filter changes and data refreshes the body of
\* load_data runs exactly once for the first run and once per data refresh,
\* never in a run that a filter change started; every run that a filter
\* change started gets past the load and computes the subset, the key
\* metrics and every table anew from the loaded frame under the changed
\* widgets; the loaded frame is that of the source as the body last saw it,
\* which in the first run and in the run of a refresh is the source as it
\* then is: changed, or present where it was missing
C11_LoaderOncePerRefresh ==
  /\ body_calls = refreshes + (IF pc = "load_data" /\ trigger # "filter" THEN 0 ELSE 1)
  /\ trigger = "filter" =>
       /\ pc \notin { "stopped", "exception" }
       /\ Recomputed
  /\ LoadReturned =>
       /\ cache.has
       /\ df = cache.value
       /\ df = load_data_body(source).value
  /\ (trigger \in { "start", "refresh" } /\ LoadReturned /\ pc \notin { "done", "stopped" })
       => source = files

\* the dashboard after a data refresh and then a filter change that changed
\* the subset: two executions of the body, none for the filter change
C11_Witness ==
  /\ pc = "done"
  /\ trigger = "filter"
  /\ refreshes = 1
  /\ body_calls = 2
  /\ changes >= 1
  /\ source = files
  /\ previous.filtered
  /\ previous.df = df
  /\ previous.filtered_df # filtered_df

\* this run has the widgets the run before it had, on the same frame
SameFilterAgain ==
  /\ Filtered
  /\ previous.filtered
  /\ previous.df = df
  /\ previous.start_date = start_date
  /\ previous.end_date = end_date
  /\ previous.selected = selected

\* C12: from the return of load_data to the end of the run, through the
\* filter, every aggregation and the loss analysis, df is the frame that
\* load_data returned: same rows, same columns, same values; and a run with
\* the widgets of the run before it gets the same subset
C12_LoadedSetUnchanged ==
  /\ LoadReturned => df = cache.value
  /\ SameFilterAgain => filtered_df = previous.filtered_df

\* a finished run that filtered two rows down to one, after a run that did
\* the same
C12_Witness ==
  /\ pc = "done"
  /\ SameFilterAgain
  /\ Len(df) = 2
  /\ Len(filtered_df) = 1
  /\ filtered_df = previous.filtered_df
  /\ df = cache.value

\* the file load_data picks, and the required columns it does not have
SourcePicked == IF files.cwd.exists THEN files.cwd ELSE files.parent
MissingColumns == RequiredColumns \ Columns(SourcePicked.rows)

\* C13: with a required column absent from the source, the run fails in
\* load_data: load_data never returns a frame, and the sidebar, the filter
\* and the aggregations are never reached, so none of them is where the
\* missing column first fails
C13_MissingColumnFailsAtLoad ==
  (SourcePicked.readable /\ MissingColumns # {}) =>
    /\ ~cache.has
    /\ pc \in { "load_data", "exception" }
    /\ df = <<>>
    /\ filtered_df = <<>>

====
